---- MODULE Spec2Model ----
(***************************************************************************)
(* TrainingWorkerPool (src/server/modules/workers/trainingWorker.ts): the  *)
(* worker pool, its task queue, the per-task timers, the worker threads'   *)
(* 'message' / 'error' / 'exit' events and terminate().  Every handler of  *)
(* the pool runs to completion on the main thread, so each is one action.  *)
(* With it: WorkerPerformanceMonitor of the same file, whose updateMetrics *)
(* is split at its await; the message handler of handleWorkerTask in the   *)
(* worker thread, split at its await; and startTraining / stopTraining of  *)
(* TrainingService (src/server/modules/services/trainingService.ts).       *)
(***************************************************************************)
EXTENDS Integers, Sequences, FiniteSets, TLC

\* ---------------------------------------------------------------- bounds
MaxTasks == 3           \* tasks enqueued by execute() in one behaviour
MaxCrashes == 1         \* worker 'error' events in one behaviour
MaxClock == 2           \* readings of Date.now() the clock runs through
MaxInFlight == 2        \* messages of one worker not yet handled by the pool
MaxTicks == 2           \* monitoring ticks beside the pool's events
MaxChecks == 105        \* monitoring ticks of a monitor left to run
MaxAlerts == 2          \* alerts of a log that getPerformanceSummary() is applied to
MaxSessions == 2        \* trainings started by TrainingService.startTraining()

\* ------------------------------------------------------ program constants
\* MAX_WORKERS of getDefaultWorkerConfig() and of the unit tests; pools of
\* every size up to it are constructed
DefaultMaxWorkers == 2
\* WorkerMessageType (types.ts)
WorkerMessageType == {"train", "evaluate", "predict", "stop", "status", "cleanup"}
\* the kinds the fallback is called with: every kind of the enum
FallbackTypes == WorkerMessageType
\* the kind of the queued tasks: the pool never reads the kind of a task
QueuedTypes == {"train"}
\* the priorities WorkerManager submits with: evaluate/predict 0, startTraining 1
Priorities == {0, 1}
\* the default priority of execute()
DefaultPriority == {0}
\* a field that an object does not have reads as undefined
Undefined == "undefined"
\* WORKER_MEMORY_LIMIT and WORKER_TIMEOUT when the environment sets none
DefaultMemoryLimit == 512
DefaultWorkerTimeout == 300000
\* the configurations passed to the constructor: the default one, and one
\* out of the documented range in each field
DefaultConfigs ==
  {[maxWorkers |-> n, maxMemoryPerWorker |-> DefaultMemoryLimit,
    workerTimeout |-> DefaultWorkerTimeout] : n \in 1..DefaultMaxWorkers}
AnyConfigs ==
  DefaultConfigs \cup
  {[maxWorkers |-> 0, maxMemoryPerWorker |-> DefaultMemoryLimit, workerTimeout |-> DefaultWorkerTimeout],
   [maxWorkers |-> 1, maxMemoryPerWorker |-> 64, workerTimeout |-> DefaultWorkerTimeout],
   [maxWorkers |-> 1, maxMemoryPerWorker |-> 4096, workerTimeout |-> DefaultWorkerTimeout],
   [maxWorkers |-> 1, maxMemoryPerWorker |-> DefaultMemoryLimit, workerTimeout |-> 1000],
   [maxWorkers |-> 1, maxMemoryPerWorker |-> DefaultMemoryLimit, workerTimeout |-> 3600000]}
\* the kinds of message a worker sends besides its Response
UpdateTypes == {"progress", "metrics"}
\* the phases of a Progress message
ProgressPhases == {"progress", "checkpoint", "error", "complete"}
\* the types of the updates a worker posts while it runs a task
PostedTypes == ProgressPhases \cup {"metrics"}
\* heapUsed of a worker thread in MB, as its Metrics messages report it
MemoryReadings == {256}
\* PERFORMANCE_THRESHOLDS: MAIN_THREAD_RESPONSE_TIME (ms), WORKER_MEMORY_LIMIT
\* (MB), ERROR_RATE_THRESHOLD (%), and the utilization (%) below which
\* checkThresholds() warns
ResponseTimeThreshold == 100
WorkerMemoryThreshold == 512
ErrorRateThreshold == 5
LowUtilization == 20
\* the alerts and the response times the monitor keeps
AlertCap == 100
ResponseTimesKept == 100
\* what measureMainThreadResponseTime() measures, in ms
ResponseTimes == {1, 150}
SlowResponseTimes == {150}
\* the period of the Metrics messages of a training worker, in ms
MetricsInterval == 1000
\* the WorkerMetrics updateWorkerMetrics() is called with: a worker idle or
\* up, within or over the memory limit, with a task done or failed
MonitorInputs ==
  {[tasksCompleted |-> 1, tasksFailed |-> 0, memoryUsage |-> 256, uptime |-> 0],
   [tasksCompleted |-> 1, tasksFailed |-> 0, memoryUsage |-> 256, uptime |-> MetricsInterval],
   [tasksCompleted |-> 0, tasksFailed |-> 1, memoryUsage |-> 513, uptime |-> 0],
   [tasksCompleted |-> 1, tasksFailed |-> 0, memoryUsage |-> 513, uptime |-> MetricsInterval]}
\* the worker ids updateWorkerMetrics() is called with
MonitorIds == 1..DefaultMaxWorkers
\* the rows of the models table, and the model ids startTraining() and
\* stopTraining() are called with: one of them has no row
ExistingModels == {1, 2}
ModelIds == {1, 2, 3}
\* the idle time in ms beyond which checkWorkerHealth() reports a worker
IdleLimit == 60000
\* the times that pass between two events when the pool is watched for health
Waits == {IdleLimit, IdleLimit + 1}
\* heapUsed readings at the configured limit and just over it
HealthReadings == {DefaultMemoryLimit, DefaultMemoryLimit + 1}
\* <<tasksCompleted, tasksFailed>> of a worker: no task, one failed in ten,
\* one failed in nine
TaskRecords == {<<0, 0>>, <<9, 1>>, <<8, 1>>}
\* the WorkerMetrics that checkWorkerHealth() is applied to
MetricsInputs ==
  {[tasksCompleted |-> c[1], tasksFailed |-> c[2], memoryUsage |-> memory,
    lastActivity |-> 0] : c \in TaskRecords, memory \in HealthReadings}
\* a wait that makes a worker unhealthy
StaleWaits == {IdleLimit + 1}

\* messages a worker's handler is called with in a run
MaxMessages == 2
\* messages a worker posts in a run, as far as its metrics interval adds to them
MaxSent == 3
\* config.epochs of a training
MaxEpochs == 2
\* the messages that start and stop a training
TrainMessageTypes == {"train", "stop"}
\* config.checkpointInterval of a training, 0 for one that saves no checkpoint
CheckpointIntervals == {0, 1}
\* WorkerMessageType, and a type that is none of its members
WorkerMessageTypes == {"train", "evaluate", "predict", "stop", "status", "cleanup", "other"}
\* the cases of the handler's switch that await their task
AwaitedTypes == {"train", "evaluate", "predict", "cleanup"}
\* the cases of the handler's switch that await nothing
AnsweredTypes == {"stop", "status"}
\* the message of the error the default case throws
UnknownTaskType == "Unknown task type"
\* messages of the errors a task throws
ErrorMessages == {"Evaluation failed", "Prediction failed"}

VARIABLES
  envUseWorkers,    \* process.env.USE_WORKERS === 'true'
  maxWorkers,       \* config.maxWorkers
  workers,          \* keys of this.workers
  available,        \* this.available, in insertion order
  busy,             \* this.busy
  metrics,          \* this.metrics: worker id -> [tasksCompleted, tasksFailed]
  taskQueue,        \* this.taskQueue: sequence of [id, type]
  isShuttingDown,   \* this.isShuttingDown
  thread,           \* worker threads ever created: id -> lifecycle state
  inbox,            \* worker id -> Task messages posted to it and not answered
  timer,            \* task id -> "armed" | "fired" | "cleared"
  promise,          \* task id -> sequence of settlements of the caller's promise
  prio,             \* task id -> the priority argument of its execute() call
  dispatchLog,      \* tasks shifted off the queue by processQueue, in order,
                    \* each with the worker picked and the ids left queued
  responded,        \* task ids for which a worker has sent its Response
  crashes,          \* number of 'error' events so far
  termPc,           \* position of the terminate() call
  termWaiting,      \* workers whose terminate() promise terminate() awaits
  lastExecute,      \* how the latest execute() call ended
  termAgain,        \* the latest terminate() call began after an earlier one had resolved
  maxMemoryPerWorker, \* config.maxMemoryPerWorker
  workerTimeout,    \* config.workerTimeout
  now,              \* Date.now()
  outbox,           \* worker id -> updates the worker has sent, not yet handled, in order
  tally,            \* outcomes the workers have reported: [completed, failed]
  performanceMetrics, \* this.performanceMetrics: [workerUtilization, errorRate]
  returned,         \* what the latest getStatus(), healthCheck() or
                    \* getPerformanceSummary() call returned
  workerMetrics,    \* WorkerPerformanceMonitor.workerMetrics: worker id -> WorkerMetrics
  monitorMetrics,   \* WorkerPerformanceMonitor.metrics
  alerts,           \* WorkerPerformanceMonitor.alerts
  alertsRaised,     \* number of addAlert() calls so far
  mainThreadResponseTimes, \* WorkerPerformanceMonitor.mainThreadResponseTimes
  isMonitoring,     \* WorkerPerformanceMonitor.isMonitoring
  monitorPc,        \* "idle", or "measuring" while updateMetrics() awaits
  monitorTicks,     \* number of interval callbacks so far
  demoMode,         \* isDemoMode()
  dbModels,         \* the models table: id -> status
  dbSessions,       \* the training_sessions table: row id -> [model_id, status]
  activeTrainingSessions, \* keys of TrainingService.activeTrainingSessions
  trainingRuns,     \* the trainings startTraining() has set off, in order
  serviceResult,    \* what the latest startTraining() or stopTraining() returned
  currentTask,      \* handleWorkerTask: id of the message in currentTask, 0 for null
  isTraining,       \* handleWorkerTask: isTraining
  running,          \* message handlers of the worker that await their task: [id, type]
  intervals,        \* ids of the train messages whose metrics interval is not cleared
  received,         \* number of messages the worker's handler has been called with
  thrown,           \* messages of the errors the handlers have caught, in order
  handled,          \* the update handleWorkerMessage() was last called with, if any
  emitted,          \* what emitProgressUpdate() was called with in that call, if anything
  readySent,        \* workers whose ready signal has been posted
  sent              \* what the worker has passed to parentPort.postMessage, in order

poolVars == <<workers, available, busy, metrics, taskQueue, thread, inbox, dispatchLog>>
vars == <<envUseWorkers, maxWorkers, workers, available, busy, metrics, taskQueue,
          isShuttingDown, thread, inbox, timer, promise, prio, dispatchLog,
          responded, crashes, termPc, termWaiting, lastExecute, termAgain,
          maxMemoryPerWorker, workerTimeout, now, outbox, tally, performanceMetrics,
          returned, workerMetrics, monitorMetrics, alerts, alertsRaised,
          mainThreadResponseTimes, isMonitoring, monitorPc, monitorTicks,
          demoMode, dbModels, dbSessions, activeTrainingSessions, trainingRuns,
          serviceResult, currentTask, isTraining, running, intervals, received, thrown,
          sent, handled, emitted, readySent>>
configVars == <<envUseWorkers, maxWorkers, maxMemoryPerWorker, workerTimeout>>
clockVars == <<now, outbox, performanceMetrics>>
\* what the pool's events leave alone: the results handed to its callers
monitorVars == <<workerMetrics, monitorMetrics, alerts, alertsRaised,
                 mainThreadResponseTimes, isMonitoring, monitorPc, monitorTicks>>
serviceVars == <<demoMode, dbModels, dbSessions, activeTrainingSessions, trainingRuns,
                 serviceResult>>
threadVars == <<currentTask, isTraining, running, intervals, received, thrown, sent>>
sinkVars == <<handled, emitted, readySent>>
sideVars == <<returned, monitorVars, serviceVars, threadVars, sinkVars>>
\* the pool and all that its events change
poolState == <<configVars, clockVars, poolVars, isShuttingDown, timer, promise, prio,
               responded, crashes, termPc, termWaiting, lastExecute, termAgain, tally>>

\* ------------------------------------------------------------ helpers
Range(s) == {s[i] : i \in DOMAIN s}

\* Set.add on an insertion-ordered Set
SetAdd(s, x) == IF x \in Range(s) THEN s ELSE Append(s, x)

\* Set.delete on an insertion-ordered Set
SetDelete(s, x) == SelectSeq(s, LAMBDA y : y # x)

\* Map.delete
MapDelete(m, k) == [x \in DOMAIN m \ {k} |-> m[x]]

\* the least member of a set of indices, 0 (for -1) when there is none
FirstIndex(indices) ==
  IF indices = {} THEN 0 ELSE CHOOSE i \in indices : \A j \in indices : i <= j

\* a findIndex that matches the oldest queued task, whatever its id
FindTaskIndexOldest(q, taskId) == IF Len(q) > 0 THEN 1 ELSE 0

\* this.taskQueue.findIndex(task => task.id === taskId), 1-based
FindTaskIndex(q, taskId) == FirstIndex({i \in DOMAIN q : q[i].id = taskId})

\* a splice that removes nothing
RemoveNone(s, i) == s

\* Array.prototype.splice(i, 1), 1-based
RemoveAt(s, i) == SubSeq(s, 1, i - 1) \o SubSeq(s, i + 1, Len(s))

\* Array.prototype.splice(i, 0, x), 1-based
InsertAt(s, i, x) == SubSeq(s, 1, i - 1) \o <<x>> \o SubSeq(s, i, Len(s))

\* the < of JavaScript on numbers, false when an operand is undefined
JsLess(a, b) == IF a = Undefined \/ b = Undefined THEN FALSE ELSE a < b

QueueIds(q) == {q[i].id : i \in DOMAIN q}

\* ------------------------------------------------------------ the pool
Pool ==
  [workers |-> workers, available |-> available, busy |-> busy,
   metrics |-> metrics, taskQueue |-> taskQueue, thread |-> thread,
   inbox |-> inbox, dispatchLog |-> dispatchLog]

SetPool(p) ==
  /\ workers' = p.workers
  /\ available' = p.available
  /\ busy' = p.busy
  /\ metrics' = p.metrics
  /\ taskQueue' = p.taskQueue
  /\ thread' = p.thread
  /\ inbox' = p.inbox
  /\ dispatchLog' = p.dispatchLog

\* createWorker() starting the counters at one
FreshMetricsCounted ==
  [tasksCompleted |-> 1, tasksFailed |-> 0, memoryUsage |-> 0, lastActivity |-> now]

\* createWorker() starting a worker with a failed task on its record
FreshMetricsFailed ==
  [tasksCompleted |-> 0, tasksFailed |-> 1, memoryUsage |-> 0, lastActivity |-> now]

FreshMetrics ==
  [tasksCompleted |-> 0, tasksFailed |-> 0, memoryUsage |-> 0, lastActivity |-> now]

\* createWorker(): a new thread with a new id, fresh metrics, Available
CreateWorker(p) ==
  LET workerId == Len(p.thread) + 1 IN
  [p EXCEPT !.thread = Append(@, "running"),
            !.inbox = Append(@, {}),
            !.metrics = (workerId :> FreshMetrics) @@ @,
            !.workers = @ \cup {workerId},
            !.available = SetAdd(@, workerId)]

RECURSIVE InitializePool(_, _)
InitializePool(p, n) == IF n = 0 THEN p ELSE InitializePool(CreateWorker(p), n - 1)

\* worker.terminate(): a running thread stops; its 'exit' event is pending
StopThread(th, w) == IF th[w] = "running" THEN [th EXCEPT ![w] = "stopping"] ELSE th

\* replaceWorker(workerId)
ReplaceWorker(p, workerId) ==
  CreateWorker(
    IF workerId \in p.workers
    THEN [p EXCEPT !.thread = StopThread(@, workerId),
                   !.workers = @ \ {workerId},
                   !.metrics = MapDelete(@, workerId)]
    ELSE p)

\* handleWorkerError() forgetting this.available.delete(workerId)
HandleWorkerErrorKeepAvailable(p, workerId) ==
  ReplaceWorker(
    [p EXCEPT !.metrics = IF workerId \in DOMAIN @
                          THEN [@ EXCEPT ![workerId].tasksFailed = @ + 1]
                          ELSE @,
              !.busy = @ \ {workerId}],
    workerId)

\* handleWorkerError(workerId, error)
HandleWorkerError(p, workerId) ==
  ReplaceWorker(
    [p EXCEPT !.metrics = IF workerId \in DOMAIN @
                          THEN [@ EXCEPT ![workerId].tasksFailed = @ + 1]
                          ELSE @,
              !.available = SetDelete(@, workerId),
              !.busy = @ \ {workerId}],
    workerId)

\* handleWorkerMessage(), its first lines: the receipt time of any message
Touch(p, workerId) ==
  IF workerId \in DOMAIN p.metrics
  THEN [p EXCEPT !.metrics[workerId].lastActivity = now]
  ELSE p

\* the updates of a worker still on their way to the pool
Outbox(workerId) == IF workerId \in DOMAIN outbox THEN outbox[workerId] ELSE <<>>

\* processQueue() leaving the worker it picked in Available
ProcessQueueKeepAvailable(p) ==
  IF Len(p.taskQueue) = 0 \/ Len(p.available) = 0
  THEN p
  ELSE LET task == Head(p.taskQueue)
           workerId == Head(p.available)
           posted == workerId \in p.workers /\ p.thread[workerId] = "running"
       IN [p EXCEPT !.taskQueue = Tail(@),
                    !.busy = @ \cup {workerId},
                    !.inbox = IF posted THEN [@ EXCEPT ![workerId] = @ \cup {task}] ELSE @,
                    !.dispatchLog = Append(@, [id |-> task.id, worker |-> workerId,
                                               posted |-> posted,
                                               left |-> QueueIds(Tail(p.taskQueue))])]

\* processQueue(): one task to one worker, when there is one of each
ProcessQueue(p) ==
  IF Len(p.taskQueue) = 0 \/ Len(p.available) = 0
  THEN p
  ELSE LET task == Head(p.taskQueue)
           workerId == Head(p.available)
           posted == workerId \in p.workers /\ p.thread[workerId] = "running"
       IN [p EXCEPT !.taskQueue = Tail(@),
                    !.available = Tail(@),
                    !.busy = @ \cup {workerId},
                    !.inbox = IF posted THEN [@ EXCEPT ![workerId] = @ \cup {task}] ELSE @,
                    !.dispatchLog = Append(@, [id |-> task.id, worker |-> workerId,
                                               posted |-> posted,
                                               left |-> QueueIds(Tail(p.taskQueue))])]

\* t.task.priority: a WorkerMessage is {id, type, data, timestamp}
MessagePriority(message) ==
  IF "priority" \in DOMAIN message THEN message.priority ELSE Undefined

\* execute() putting every new task at the head of the queue
InsertTaskAtHead(q, task, priority) == InsertAt(q, 1, task)

\* the priority insert of execute()
InsertTask(q, task, priority) ==
  LET insertIndex == FirstIndex({i \in DOMAIN q : JsLess(MessagePriority(q[i]), priority)}) IN
  IF insertIndex = 0 THEN Append(q, task) ELSE InsertAt(q, insertIndex, task)

\* executeInMainThread(type, data): the executor's result, or Unknown task type
ExecuteInMainThread(type, throws) ==
  IF type \in {"train", "evaluate", "predict"}
  THEN (IF throws THEN "fallback_rejected" ELSE "fallback_resolved")
  ELSE "fallback_rejected"

\* the worker's message handler: the success flag of the Response it sends
\* for a task of the kind, whose executor throws or not
WorkerSucceeds(type, throws) ==
  CASE type \in {"train", "evaluate", "predict", "cleanup"} -> ~throws
    [] type \in {"stop", "status"} -> TRUE
    [] OTHER -> FALSE

\* validateWorkerConfig(config).isValid, on the three numeric limits
ValidateWorkerConfig(config) ==
  /\ ~(config.maxWorkers < 1 \/ config.maxWorkers > 16)
  /\ ~(config.maxMemoryPerWorker < 128 \/ config.maxMemoryPerWorker > 2048)
  /\ ~(config.workerTimeout < 30000 \/ config.workerTimeout > 1800000)

\* ------------------------------------------------------------ Init
EmptyPool ==
  [workers |-> {}, available |-> <<>>, busy |-> {}, metrics |-> <<>>,
   taskQueue |-> <<>>, thread |-> <<>>, inbox |-> <<>>, dispatchLog |-> <<>>]

\* a constructor that starts the workers whatever USE_WORKERS is
PoolAlwaysStarted(useWorkers, n) == InitializePool(EmptyPool, n)

\* the constructor's last lines: workers only when USE_WORKERS is 'true'
PoolAtConstruction(useWorkers, n) ==
  IF useWorkers THEN InitializePool(EmptyPool, n) ELSE EmptyPool

\* a pool with USE_WORKERS and the configuration as given, holding p
ConstructPool(useWorkers, config, p) ==
  /\ envUseWorkers = useWorkers
  /\ maxWorkers = config.maxWorkers
  /\ maxMemoryPerWorker = config.maxMemoryPerWorker
  /\ workerTimeout = config.workerTimeout
  /\ now = 0
  /\ outbox = <<>>
  /\ tally = [completed |-> 0, failed |-> 0]
  /\ performanceMetrics = [workerUtilization |-> 0, errorRate |-> 0]
  /\ termAgain = FALSE
  /\ workers = p.workers
  /\ available = p.available
  /\ busy = p.busy
  /\ metrics = p.metrics
  /\ taskQueue = p.taskQueue
  /\ thread = p.thread
  /\ inbox = p.inbox
  /\ dispatchLog = p.dispatchLog
  /\ isShuttingDown = FALSE
  /\ timer = <<>>
  /\ promise = <<>>
  /\ prio = <<>>
  /\ responded = {}
  /\ crashes = 0
  /\ termPc = "idle"
  /\ termWaiting = {}
  /\ lastExecute = "none"
  /\ returned = [call |-> "none", value |-> <<>>]

\* initializeMetrics()
InitializeMetrics == [mainThreadResponseTime |-> 0, workerUtilization |-> 0, errorRate |-> 0]

\* new WorkerPerformanceMonitor()
MonitorConstruct ==
  /\ workerMetrics = <<>>
  /\ monitorMetrics = InitializeMetrics
  /\ alerts = <<>>
  /\ alertsRaised = 0
  /\ mainThreadResponseTimes = <<>>
  /\ isMonitoring = FALSE
  /\ monitorPc = "idle"
  /\ monitorTicks = 0

\* new TrainingWorkerPool(config) with USE_WORKERS as given
Construct(useWorkers, config) ==
  ConstructPool(useWorkers, config, PoolAtConstruction(useWorkers, config.maxWorkers))

\* a message the worker posts to its parent: a WorkerResponse (kind
\* "response", with success and error) or a WorkerProgressUpdate (kind
\* "progress", with type and, for type 'error', the error's message)
Posted(kind, id, type, success, error) ==
  [kind |-> kind, id |-> id, type |-> type, success |-> success, error |-> error]

\* sendProgressUpdate(type, data): the id is currentTask?.id || 'unknown'
SendProgressUpdate(task, type, error) == Posted("progress", task, type, TRUE, error)

\* sendResponse(success, data, error): nothing is posted without a currentTask
SendResponse(task, success, error) ==
  IF task = 0 THEN <<>> ELSE <<Posted("response", task, "", success, error)>>

\* a pool whose handleWorkerMessage() has not been called yet
NothingHandled ==
  /\ handled = <<>>
  /\ emitted = <<>>
  /\ readySent = {}

\* handleWorkerTask() up to its ready signal, in a worker thread
HandleWorkerTask ==
  /\ currentTask = 0
  /\ isTraining = FALSE
  /\ running = {}
  /\ intervals = {}
  /\ received = 0
  /\ thrown = <<>>
  /\ sent = <<SendProgressUpdate(0, "ready", "")>>

\* new TrainingService(db, io) on a database whose models are idle
ServiceConstruct(demo) ==
  /\ demoMode = demo
  /\ dbModels = [modelId \in ExistingModels |-> "idle"]
  /\ dbSessions = <<>>
  /\ activeTrainingSessions = {}
  /\ trainingRuns = <<>>
  /\ serviceResult = [call |-> "none"]

Init ==
  /\ \E useWorkers \in BOOLEAN, config \in DefaultConfigs : Construct(useWorkers, config)
  /\ MonitorConstruct
  /\ ServiceConstruct(FALSE)
  /\ HandleWorkerTask
  /\ NothingHandled

\* a worker thread of a pool of one worker
WorkerInit ==
  /\ Construct(TRUE, CHOOSE config \in DefaultConfigs : config.maxWorkers = 1)
  /\ MonitorConstruct
  /\ ServiceConstruct(FALSE)
  /\ HandleWorkerTask
  /\ NothingHandled

\* the service in production and in demo mode
ServiceInit ==
  /\ \E useWorkers \in BOOLEAN :
       Construct(useWorkers, CHOOSE config \in DefaultConfigs : config.maxWorkers = 1)
  /\ MonitorConstruct
  /\ \E demo \in BOOLEAN : ServiceConstruct(demo)
  /\ HandleWorkerTask
  /\ NothingHandled

\* a pool whose workers have any of the metrics checkWorkerHealth() is
\* applied to
CheckInit ==
  /\ \E config \in DefaultConfigs :
       \E m \in [1..config.maxWorkers -> MetricsInputs] :
         ConstructPool(TRUE, config,
                       [PoolAtConstruction(TRUE, config.maxWorkers) EXCEPT !.metrics = m])
  /\ MonitorConstruct
  /\ ServiceConstruct(FALSE)
  /\ HandleWorkerTask
  /\ NothingHandled

\* the kinds of alert a log holds
AlertTypes == {"warning", "error", "critical"}

\* the logs of up to n alerts, numbered in the order they were added
AlertLogs(n) ==
  UNION {{[i \in 1..k |-> [type |-> types[i], cause |-> "given", id |-> i]] :
            types \in [1..k -> AlertTypes]} : k \in 0..n}

\* a monitor whose alert log is any of the logs getPerformanceSummary() is
\* applied to
SummaryInit ==
  /\ \E useWorkers \in BOOLEAN, config \in DefaultConfigs : Construct(useWorkers, config)
  /\ \E log \in AlertLogs(MaxAlerts) :
       /\ alerts = log
       /\ alertsRaised = Len(log)
  /\ workerMetrics = <<>>
  /\ monitorMetrics = InitializeMetrics
  /\ mainThreadResponseTimes = <<>>
  /\ isMonitoring = FALSE
  /\ monitorPc = "idle"
  /\ monitorTicks = 0
  /\ ServiceConstruct(FALSE)
  /\ HandleWorkerTask
  /\ NothingHandled

\* a pool constructed with any of the configurations
ConfigInit ==
  /\ \E useWorkers \in BOOLEAN, config \in AnyConfigs : Construct(useWorkers, config)
  /\ MonitorConstruct
  /\ ServiceConstruct(FALSE)
  /\ HandleWorkerTask
  /\ NothingHandled

\* ------------------------------------------------------------ actions
\* execute(type, data, priority) with USE_WORKERS not 'true'
ExecuteFallback(type, throws) ==
  /\ ~envUseWorkers
  /\ lastExecute' = ExecuteInMainThread(type, throws)
  /\ UNCHANGED <<sideVars, configVars, clockVars, tally, termAgain, poolVars, isShuttingDown, timer,
                 promise, prio, responded, crashes, termPc, termWaiting>>

\* execute(type, data, priority) on a pool that is shutting down
ExecuteRejected ==
  /\ envUseWorkers
  /\ isShuttingDown
  /\ lastExecute' = "shutting_down"
  /\ UNCHANGED <<sideVars, configVars, clockVars, tally, termAgain, poolVars, isShuttingDown, timer,
                 promise, prio, responded, crashes, termPc, termWaiting>>

\* execute(type, data, priority): new task, timer, priority insert, processQueue
ExecuteEnqueue(type, priority) ==
  /\ envUseWorkers
  /\ ~isShuttingDown
  /\ Len(promise) < MaxTasks
  /\ LET taskId == Len(promise) + 1
         task == [id |-> taskId, type |-> type]
     IN /\ timer' = Append(timer, "armed")
        /\ promise' = Append(promise, <<>>)
        /\ prio' = Append(prio, priority)
        /\ SetPool(ProcessQueue([Pool EXCEPT !.taskQueue = InsertTask(@, task, priority)]))
  /\ lastExecute' = "queued"
  /\ UNCHANGED <<sideVars, configVars, clockVars, tally, termAgain, isShuttingDown, responded, crashes,
                 termPc, termWaiting>>

\* the setTimeout callback of execute(); equal delays fire in creation order
TimerFire(taskId) ==
  /\ taskId \in DOMAIN timer
  /\ timer[taskId] = "armed"
  /\ \A t \in 1..(taskId - 1) : timer[t] # "armed"
  /\ timer' = [timer EXCEPT ![taskId] = "fired"]
  /\ LET taskIndex == FindTaskIndex(taskQueue, taskId) IN
     IF taskIndex # 0
     THEN /\ taskQueue' = RemoveAt(taskQueue, taskIndex)
          /\ promise' = [promise EXCEPT ![taskId] = Append(@, "rejected_timeout")]
     ELSE UNCHANGED <<taskQueue, promise>>
  /\ UNCHANGED <<sideVars, configVars, clockVars, tally, termAgain, workers, available, busy, metrics,
                 isShuttingDown, thread, inbox, prio, dispatchLog, responded,
                 crashes, termPc, termWaiting, lastExecute>>

\* a worker answers a Task message; handleWorkerMessage(workerId, Response)
Respond(workerId, msg, success) ==
  /\ workerId \in DOMAIN thread
  /\ thread[workerId] = "running"
  /\ msg \in inbox[workerId]
  /\ Outbox(workerId) = <<>>
  /\ responded' = responded \cup {msg.id}
  /\ LET taskIndex == FindTaskIndex(taskQueue, msg.id)
         answered == Touch([Pool EXCEPT !.inbox = [@ EXCEPT ![workerId] = @ \ {msg}]],
                           workerId)
     IN IF taskIndex # 0
        THEN /\ timer' = [timer EXCEPT ![msg.id] = IF @ = "armed" THEN "cleared" ELSE @]
             /\ promise' = [promise EXCEPT ![msg.id] =
                              Append(@, IF success THEN "resolved" ELSE "rejected_error")]
             /\ SetPool(ProcessQueue(
                  [answered EXCEPT
                     !.taskQueue = RemoveAt(@, taskIndex),
                     !.available = SetAdd(@, workerId),
                     !.busy = @ \ {workerId},
                     !.metrics = IF workerId \in DOMAIN @
                                 THEN IF success
                                      THEN [@ EXCEPT ![workerId].tasksCompleted = @ + 1]
                                      ELSE [@ EXCEPT ![workerId].tasksFailed = @ + 1]
                                 ELSE @]))
        ELSE /\ SetPool(answered)
             /\ UNCHANGED <<timer, promise>>
  /\ UNCHANGED <<sideVars, configVars, clockVars, termAgain, isShuttingDown, prio, crashes,
                 termPc, termWaiting, lastExecute>>

WorkerResponse(workerId, msg, success) ==
  /\ Respond(workerId, msg, success)
  /\ UNCHANGED tally

\* a worker answers, and the outcome it reports is counted
WorkerReport(workerId, msg, success) ==
  /\ Respond(workerId, msg, success)
  /\ tally' = IF success
              THEN [tally EXCEPT !.completed = @ + 1]
              ELSE [tally EXCEPT !.failed = @ + 1]

\* the metrics object of startMonitoring(), sent at time t
MetricsPayload(t, memory) ==
  [tasksCompleted |-> 0, tasksFailed |-> 0, memoryUsage |-> memory, lastActivity |-> t]

\* a training worker posts a Progress or a Metrics message
WorkerSend(workerId, type, memory) ==
  /\ workerId \in DOMAIN thread
  /\ thread[workerId] = "running"
  /\ \E task \in inbox[workerId] : task.type = "train"
  /\ Len(Outbox(workerId)) < MaxInFlight
  /\ LET task == CHOOSE t \in inbox[workerId] : t.type = "train"
         update == IF type = "metrics"
                   THEN [id |-> task.id, type |-> type, timestamp |-> now,
                         data |-> MetricsPayload(now, memory)]
                   ELSE [id |-> task.id, type |-> type, timestamp |-> now]
     IN outbox' = (workerId :> Append(Outbox(workerId), update)) @@ outbox
  /\ UNCHANGED <<sideVars, configVars, now, performanceMetrics, tally, termAgain, poolVars,
                 isShuttingDown, timer, promise, prio, responded, crashes, termPc,
                 termWaiting, lastExecute>>

\* { ...metrics, ...message.data }
Merge(stored, data) ==
  [f \in DOMAIN stored \cup DOMAIN data |->
     IF f \in DOMAIN data THEN data[f] ELSE stored[f]]

\* handleWorkerMessage(workerId, update) for a Progress or a Metrics message
HandleWorkerUpdate(p, workerId, message) ==
  LET touched == Touch(p, workerId)
      merged == IF workerId \in DOMAIN touched.metrics
                THEN Merge(touched.metrics[workerId], message.data)
                ELSE message.data
  IN IF message.type = "metrics"
     THEN [touched EXCEPT !.metrics = (workerId :> merged) @@ @]
     ELSE touched

\* the 'message' event of a worker's oldest update: handleWorkerMessage()
\* with it. An update that is neither 'progress' nor 'metrics' goes on to
\* the completion block, where it counts as a failure (it has no success).
ReceiveUpdate(workerId) ==
  /\ workerId \in DOMAIN thread
  /\ thread[workerId] = "running"
  /\ Outbox(workerId) # <<>>
  /\ outbox' = [outbox EXCEPT ![workerId] = Tail(@)]
  /\ LET message == Head(outbox[workerId])
         taskIndex == FindTaskIndex(taskQueue, message.id)
         touched == Touch(Pool, workerId)
     IN IF message.type \in UpdateTypes
        THEN /\ SetPool(HandleWorkerUpdate(Pool, workerId, message))
             /\ UNCHANGED <<timer, promise>>
        ELSE IF taskIndex # 0
        THEN /\ timer' = [timer EXCEPT ![message.id] = IF @ = "armed" THEN "cleared" ELSE @]
             /\ promise' = [promise EXCEPT ![message.id] = Append(@, "rejected_error")]
             /\ SetPool(ProcessQueue(
                  [touched EXCEPT
                     !.taskQueue = RemoveAt(@, taskIndex),
                     !.available = SetAdd(@, workerId),
                     !.busy = @ \ {workerId},
                     !.metrics = IF workerId \in DOMAIN @
                                 THEN [@ EXCEPT ![workerId].tasksFailed = @ + 1]
                                 ELSE @]))
        ELSE /\ SetPool(touched)
             /\ UNCHANGED <<timer, promise>>
  /\ UNCHANGED <<configVars, now, performanceMetrics, tally, termAgain, isShuttingDown,
                 prio, responded, crashes, termPc, termWaiting, lastExecute>>

PoolReceive(workerId) ==
  /\ ReceiveUpdate(workerId)
  /\ UNCHANGED sideVars

\* emitProgressUpdate(update) as handleWorkerMessage() calls it
EmitProgressUpdate(message) ==
  IF message.type = "progress" THEN <<message>> ELSE <<>>

\* the same event, with the call and what it passed on kept
PoolHandle(workerId) ==
  /\ ReceiveUpdate(workerId)
  /\ handled' = <<Head(outbox[workerId])>>
  /\ emitted' = EmitProgressUpdate(Head(outbox[workerId]))
  /\ UNCHANGED <<returned, monitorVars, serviceVars, threadVars, readySent>>

\* a new worker thread posts its ready signal, which names no task
WorkerReady(workerId) ==
  /\ workerId \in DOMAIN thread
  /\ thread[workerId] = "running"
  /\ workerId \notin readySent
  /\ inbox[workerId] = {}
  /\ readySent' = readySent \cup {workerId}
  /\ outbox' = (workerId :> Append(Outbox(workerId),
                                    [id |-> 0, type |-> "ready", timestamp |-> now]))
                @@ outbox
  /\ UNCHANGED <<returned, monitorVars, serviceVars, threadVars, handled, emitted>>
  /\ UNCHANGED <<configVars, now, performanceMetrics, tally, termAgain, poolVars,
                 isShuttingDown, timer, promise, prio, responded, crashes, termPc,
                 termWaiting, lastExecute>>

\* the clock advances
Tick ==
  /\ now < MaxClock
  /\ now' = now + 1
  /\ UNCHANGED <<sideVars, configVars, outbox, performanceMetrics, tally, termAgain, poolVars,
                 isShuttingDown, timer, promise, prio, responded, crashes, termPc,
                 termWaiting, lastExecute>>

RECURSIVE SumOver(_, _, _)
SumOver(m, ids, field) ==
  IF ids = {} THEN 0
  ELSE LET id == CHOOSE x \in ids : TRUE
       IN m[id][field] + SumOver(m, ids \ {id}, field)

\* calculateErrorRate(), in whole percent
CalculateErrorRate(m) ==
  LET failedTasks == SumOver(m, DOMAIN m, "tasksFailed")
      totalTasks == SumOver(m, DOMAIN m, "tasksCompleted") + failedTasks
  IN IF totalTasks > 0 THEN (failedTasks * 100) \div totalTasks ELSE 0

\* (activeWorkers / this.workers.size) * 100, in whole percent
WorkerUtilization(p) ==
  LET activeWorkers == Cardinality({w \in DOMAIN p.metrics : w \in p.busy})
      size == Cardinality(p.workers)
  IN IF size > 0 THEN (activeWorkers * 100) \div size
     ELSE IF activeWorkers > 0 THEN "Infinity" ELSE "NaN"

\* the 5 s interval of startPerformanceMonitoring(): updatePerformanceMetrics()
UpdatePerformanceMetrics ==
  /\ envUseWorkers
  /\ performanceMetrics' = [workerUtilization |-> WorkerUtilization(Pool),
                            errorRate |-> CalculateErrorRate(metrics)]
  /\ UNCHANGED <<sideVars, configVars, now, outbox, tally, termAgain, poolVars, isShuttingDown,
                 timer, promise, prio, responded, crashes, termPc, termWaiting,
                 lastExecute>>

\* a worker thread throws: its 'error' event, then its 'exit' event is pending
WorkerError(workerId) ==
  /\ workerId \in DOMAIN thread
  /\ thread[workerId] = "running"
  /\ crashes < MaxCrashes
  /\ crashes' = crashes + 1
  /\ SetPool(HandleWorkerError([Pool EXCEPT !.thread[workerId] = "crashed"], workerId))
  /\ UNCHANGED <<sideVars, configVars, clockVars, tally, termAgain, isShuttingDown, timer, promise, prio,
                 responded, termPc, termWaiting, lastExecute>>

\* terminate() forgetting this.available.clear()
ClearPoolKeepAvailable(p) ==
  [p EXCEPT !.workers = {}, !.busy = {}, !.taskQueue = <<>>, !.metrics = <<>>]

\* terminate() forgetting this.metrics.clear()
ClearPoolKeepMetrics(p) ==
  [p EXCEPT !.workers = {}, !.available = <<>>, !.busy = {}, !.taskQueue = <<>>]

\* the tail of terminate(), run when the last awaited worker has exited
ClearPool(p) ==
  [p EXCEPT !.workers = {}, !.available = <<>>, !.busy = {},
            !.taskQueue = <<>>, !.metrics = <<>>]

\* the 'exit' event of a stopped thread; the listener of createWorker runs
\* replaceWorker, then the promise of worker.terminate() resolves
WorkerExit(workerId) ==
  /\ workerId \in DOMAIN thread
  /\ thread[workerId] \in {"crashed", "stopping"}
  /\ LET p == ReplaceWorker([Pool EXCEPT !.thread[workerId] = "exited",
                                         !.inbox[workerId] = {}], workerId)
         last == termPc = "stopping" /\ termWaiting = {workerId}
     IN /\ SetPool(IF last THEN ClearPool(p) ELSE p)
        /\ termPc' = IF last THEN "done" ELSE termPc
        /\ termWaiting' = termWaiting \ {workerId}
  /\ UNCHANGED <<sideVars, configVars, clockVars, tally, termAgain, isShuttingDown, timer, promise, prio,
                 responded, crashes, lastExecute>>

\* terminate() from the emptied queue on: worker.terminate() on every worker
StopWorkers(p) ==
  IF p.workers = {}
  THEN ClearPool(p)
  ELSE [p EXCEPT !.thread = [w \in DOMAIN @ |->
                               IF w \in p.workers /\ @[w] = "running"
                               THEN "stopping" ELSE @[w]]]

\* those of the stopped workers whose 'exit' is still to come
Awaited(p) == {w \in p.workers : p.thread[w] \in {"running", "crashed", "stopping"}}

\* terminate(): up to its first await
Terminate ==
  /\ termPc \in {"idle", "done"}
  /\ isShuttingDown' = TRUE
  /\ IF Len(taskQueue) > 0
     THEN /\ termPc' = "draining"
          /\ termWaiting' = {}
          /\ UNCHANGED poolVars
     ELSE /\ termPc' = IF workers = {} THEN "done" ELSE "stopping"
          /\ termWaiting' = Awaited(Pool)
          /\ SetPool(StopWorkers(Pool))
  /\ UNCHANGED <<sideVars, configVars, clockVars, tally, timer, promise, prio, responded,
                 crashes, lastExecute>>

TerminateCall ==
  /\ Terminate
  /\ UNCHANGED termAgain

\* terminate(), noting whether an earlier call had resolved before
TerminateTracked ==
  /\ Terminate
  /\ termAgain' = (termPc = "done")

\* terminate() wakes from its 100 ms sleep and finds the queue empty
TerminateWake ==
  /\ termPc = "draining"
  /\ Len(taskQueue) = 0
  /\ termPc' = IF workers = {} THEN "done" ELSE "stopping"
  /\ termWaiting' = Awaited(Pool)
  /\ SetPool(StopWorkers(Pool))
  /\ UNCHANGED <<sideVars, configVars, clockVars, tally, termAgain, isShuttingDown, timer, promise, prio,
                 responded, crashes, lastExecute>>

\* checkWorkerHealth() reporting a worker whose memory is at the limit
CheckWorkerHealthAtLimit(m, t, limit) ==
  LET totalTasks == m.tasksCompleted + m.tasksFailed
      issues == (IF m.memoryUsage >= limit THEN <<"memory">> ELSE <<>>)
                \o (IF t - m.lastActivity > IdleLimit THEN <<"inactive">> ELSE <<>>)
                \o (IF totalTasks > 0 /\ m.tasksFailed * 10 > totalTasks
                    THEN <<"errors">> ELSE <<>>)
  IN [isHealthy |-> Len(issues) = 0, issues |-> issues]

\* checkWorkerHealth(workerId, metrics, issues): the issues pushed, in order,
\* and the flag returned
CheckWorkerHealth(m, t, limit) ==
  LET totalTasks == m.tasksCompleted + m.tasksFailed
      issues == (IF m.memoryUsage > limit THEN <<"memory">> ELSE <<>>)
                \o (IF t - m.lastActivity > IdleLimit THEN <<"inactive">> ELSE <<>>)
                \o (IF totalTasks > 0 /\ m.tasksFailed * 10 > totalTasks
                    THEN <<"errors">> ELSE <<>>)
  IN [isHealthy |-> Len(issues) = 0, issues |-> issues]

\* the entries healthCheck() collects: one for each key of this.metrics
HealthChecks ==
  [workerId \in DOMAIN metrics |->
     CheckWorkerHealth(metrics[workerId], now, maxMemoryPerWorker)]

\* the workers healthCheck() reports as unhealthy
Unhealthy == {w \in DOMAIN metrics : ~HealthChecks[w].isHealthy}

\* a healthCheck() that replaces a worker it reports as unhealthy
HealthCheckReplacing ==
  /\ returned' = [call |-> "healthCheck", value |-> HealthChecks]
  /\ IF Unhealthy = {}
     THEN UNCHANGED poolVars
     ELSE SetPool(ReplaceWorker(Pool, CHOOSE w \in Unhealthy : TRUE))
  /\ UNCHANGED <<configVars, clockVars, isShuttingDown, timer, promise, prio, responded,
                 crashes, termPc, termWaiting, lastExecute, termAgain, tally,
                 monitorVars, serviceVars, threadVars, sinkVars>>

\* healthCheck()
HealthCheck ==
  /\ returned' = [call |-> "healthCheck", value |-> HealthChecks]
  /\ UNCHANGED <<poolState, monitorVars, serviceVars, threadVars, sinkVars>>

\* getStatus()
GetStatus ==
  /\ returned' = [call |-> "getStatus",
                  value |-> [totalWorkers |-> Cardinality(workers),
                             availableWorkers |-> Len(available),
                             busyWorkers |-> Cardinality(busy),
                             queuedTasks |-> Len(taskQueue),
                             metrics |-> metrics,
                             performance |-> performanceMetrics]]
  /\ UNCHANGED <<poolState, monitorVars, serviceVars, threadVars, sinkVars>>

\* time passes between two events
Elapse(ms) ==
  /\ now + ms <= MaxClock * (IdleLimit + 1)
  /\ now' = now + ms
  /\ UNCHANGED <<sideVars, configVars, outbox, performanceMetrics, tally, termAgain,
                 poolVars, isShuttingDown, timer, promise, prio, responded, crashes,
                 termPc, termWaiting, lastExecute>>

\* ------------------------------------------------- WorkerPerformanceMonitor
RECURSIVE SumSeq(_)
SumSeq(q) == IF q = <<>> THEN 0 ELSE Head(q) + SumSeq(Tail(q))

\* updateWorkerMetrics(), the one without parameters: workerUtilization and
\* errorRate of the worker metrics the monitor holds, in whole percent
RecomputeWorkerMetrics(m, wm) ==
  LET activeWorkers == Cardinality({w \in DOMAIN wm : wm[w].uptime > 0})
      size == Cardinality(DOMAIN wm)
      failedTasks == SumOver(wm, DOMAIN wm, "tasksFailed")
      totalTasks == SumOver(wm, DOMAIN wm, "tasksCompleted") + failedTasks
  IN [m EXCEPT !.workerUtilization = IF size > 0 THEN (activeWorkers * 100) \div size ELSE 0,
               !.errorRate = IF totalTasks > 0 THEN (failedTasks * 100) \div totalTasks ELSE 0]

\* calculateDerivedMetrics(): the mean of the response times kept
CalculateDerivedMetrics(m, times) ==
  IF Len(times) > 0
  THEN [m EXCEPT !.mainThreadResponseTime = SumSeq(times) \div Len(times)]
  ELSE m

\* the setImmediate callback of measureMainThreadResponseTime(): the last
\* ResponseTimesKept measurements are kept
KeepResponseTime(times, responseTime) ==
  LET pushed == Append(times, responseTime)
  IN IF Len(pushed) > ResponseTimesKept THEN Tail(pushed) ELSE pushed

\* checkThresholds(): the alerts it adds, in order
CheckThresholds(m, wm) ==
  (IF m.mainThreadResponseTime > ResponseTimeThreshold
   THEN <<[type |-> "warning", cause |-> "responseTime"]>> ELSE <<>>)
  \o [i \in 1..Cardinality({w \in DOMAIN wm : wm[w].memoryUsage > WorkerMemoryThreshold})
        |-> [type |-> "error", cause |-> "memory"]]
  \o (IF m.errorRate > ErrorRateThreshold
      THEN <<[type |-> "critical", cause |-> "errorRate"]>> ELSE <<>>)
  \o (IF m.workerUtilization < LowUtilization /\ Cardinality(DOMAIN wm) > 0
      THEN <<[type |-> "warning", cause |-> "utilization"]>> ELSE <<>>)

\* addAlert() that never discards
AddAlertUnbounded(log, alert, id) ==
  Append(log, [type |-> alert.type, cause |-> alert.cause, id |-> id])

\* addAlert(type, message, metrics): push, then shift when over the cap
AddAlert(log, alert, id) ==
  LET pushed == Append(log, [type |-> alert.type, cause |-> alert.cause, id |-> id])
  IN IF Len(pushed) > AlertCap THEN Tail(pushed) ELSE pushed

RECURSIVE AddAlerts(_, _, _)
AddAlerts(log, raised, new) ==
  IF new = <<>> THEN log
  ELSE AddAlerts(AddAlert(log, Head(new), raised + 1), raised + 1, Tail(new))

\* the status of getPerformanceSummary()
SummaryStatus(log) ==
  LET criticalAlerts == SelectSeq(log, LAMBDA a : a.type = "critical")
      warningAlerts == SelectSeq(log, LAMBDA a : a.type = "warning")
  IN IF Len(criticalAlerts) > 0 THEN "critical"
     ELSE IF Len(warningAlerts) > 0 THEN "warning"
     ELSE "healthy"

\* the recommendations of getPerformanceSummary(), in order
Recommendations(m) ==
  (IF m.mainThreadResponseTime > ResponseTimeThreshold THEN <<"mainThread">> ELSE <<>>)
  \o (IF m.errorRate > ErrorRateThreshold THEN <<"errors">> ELSE <<>>)
  \o (IF m.workerUtilization < LowUtilization THEN <<"poolSize">> ELSE <<>>)

\* startMonitoring()
StartMonitoring ==
  /\ ~isMonitoring
  /\ isMonitoring' = TRUE
  /\ UNCHANGED <<poolState, threadVars, sinkVars, serviceVars, returned, workerMetrics, monitorMetrics, alerts, alertsRaised,
                 mainThreadResponseTimes, monitorPc, monitorTicks>>

\* stopMonitoring()
StopMonitoring ==
  /\ isMonitoring
  /\ isMonitoring' = FALSE
  /\ UNCHANGED <<poolState, threadVars, sinkVars, serviceVars, returned, workerMetrics, monitorMetrics, alerts, alertsRaised,
                 mainThreadResponseTimes, monitorPc, monitorTicks>>

\* the interval callback: updateMetrics() runs up to its await, then
\* checkThresholds() runs
MonitorTick(maxTicks) ==
  /\ isMonitoring
  /\ monitorPc = "idle"
  /\ monitorTicks < maxTicks
  /\ monitorTicks' = monitorTicks + 1
  /\ monitorPc' = "measuring"
  /\ LET new == CheckThresholds(monitorMetrics, workerMetrics)
     IN /\ alerts' = AddAlerts(alerts, alertsRaised, new)
        /\ alertsRaised' = alertsRaised + Len(new)
  /\ UNCHANGED <<poolState, threadVars, sinkVars, serviceVars, returned, workerMetrics, monitorMetrics,
                 mainThreadResponseTimes, isMonitoring>>

\* updateMetrics() from its await on: the response time measured, the worker
\* metrics recomputed, the derived metrics
MonitorResume(responseTime) ==
  /\ monitorPc = "measuring"
  /\ monitorPc' = "idle"
  /\ LET times == KeepResponseTime(mainThreadResponseTimes, responseTime)
     IN /\ mainThreadResponseTimes' = times
        /\ monitorMetrics' =
             CalculateDerivedMetrics(
               RecomputeWorkerMetrics(
                 [monitorMetrics EXCEPT !.mainThreadResponseTime = responseTime],
                 workerMetrics),
               times)
  /\ UNCHANGED <<poolState, threadVars, sinkVars, serviceVars, returned, workerMetrics, alerts, alertsRaised, isMonitoring,
                 monitorTicks>>

\* updateWorkerMetrics(workerId, metrics) as a caller invokes it: of the two
\* methods of this name in the class body the later one is the method of the
\* class, so the call recomputes and stores nothing
UpdateWorkerMetrics(workerId, m) ==
  /\ monitorMetrics' = RecomputeWorkerMetrics(monitorMetrics, workerMetrics)
  /\ UNCHANGED <<poolState, threadVars, sinkVars, serviceVars, returned, workerMetrics, alerts, alertsRaised,
                 mainThreadResponseTimes, isMonitoring, monitorPc, monitorTicks>>

\* getPerformanceSummary()
GetPerformanceSummary ==
  /\ returned' = [call |-> "getPerformanceSummary",
                  value |-> [status |-> SummaryStatus(alerts),
                             metrics |-> monitorMetrics,
                             recommendations |-> Recommendations(monitorMetrics)]]
  /\ UNCHANGED <<poolState, threadVars, sinkVars, monitorVars, serviceVars>>

\* ------------------------------------------------------- TrainingService
AlreadyTraining == [call |-> "startTraining", success |-> FALSE,
                    error |-> "Model is already training"]

\* startTraining() past its checks, in production: a session row, the model
\* set to training and marked active, the training set off
BeginTraining(modelId) ==
  LET sessionId == Len(dbSessions) + 1
  IN /\ dbSessions' = Append(dbSessions, [model_id |-> modelId, status |-> "running"])
     /\ dbModels' = [dbModels EXCEPT ![modelId] = "training"]
     /\ activeTrainingSessions' = activeTrainingSessions \cup {modelId}
     /\ trainingRuns' = Append(trainingRuns,
                               [modelId |-> modelId, sessionId |-> sessionId,
                                simulated |-> FALSE, byWorkers |-> envUseWorkers,
                                state |-> "running"])
     /\ serviceResult' = [call |-> "startTraining", success |-> TRUE,
                          sessionId |-> sessionId]

\* simulateTraining(modelId, config, userId)
SimulateTraining(modelId) ==
  /\ trainingRuns' = Append(trainingRuns,
                            [modelId |-> modelId, sessionId |-> now,
                             simulated |-> TRUE, byWorkers |-> FALSE,
                             state |-> "running"])
  /\ serviceResult' = [call |-> "startTraining", success |-> TRUE, sessionId |-> now]
  /\ UNCHANGED <<dbModels, dbSessions, activeTrainingSessions>>

\* a startTraining() that does not look at the active sessions
StartTrainingUnchecked(modelId) ==
  /\ modelId \in DOMAIN dbModels => Len(trainingRuns) < MaxSessions
  /\ IF modelId \notin DOMAIN dbModels
     THEN /\ serviceResult' = [call |-> "startTraining", success |-> FALSE,
                               error |-> "Model not found"]
          /\ UNCHANGED <<dbModels, dbSessions, activeTrainingSessions, trainingRuns>>
     ELSE IF demoMode
     THEN SimulateTraining(modelId)
     ELSE BeginTraining(modelId)
  /\ UNCHANGED <<poolState, threadVars, sinkVars, returned, monitorVars, demoMode>>

\* startTraining(modelId, datasetId, config, userId)
StartTraining(modelId) ==
  /\ (modelId \in DOMAIN dbModels /\ modelId \notin activeTrainingSessions)
     => Len(trainingRuns) < MaxSessions
  /\ IF modelId \notin DOMAIN dbModels
     THEN /\ serviceResult' = [call |-> "startTraining", success |-> FALSE,
                               error |-> "Model not found"]
          /\ UNCHANGED <<dbModels, dbSessions, activeTrainingSessions, trainingRuns>>
     ELSE IF modelId \in activeTrainingSessions
     THEN /\ serviceResult' = AlreadyTraining
          /\ UNCHANGED <<dbModels, dbSessions, activeTrainingSessions, trainingRuns>>
     ELSE IF demoMode
     THEN SimulateTraining(modelId)
     ELSE BeginTraining(modelId)
  /\ UNCHANGED <<poolState, threadVars, sinkVars, returned, monitorVars, demoMode>>

\* UPDATE training_sessions SET status = ... WHERE id = sessionId
UpdateSession(sessions, sessionId, status) ==
  [id \in DOMAIN sessions |->
     IF id = sessionId THEN [sessions[id] EXCEPT !.status = status] ELSE sessions[id]]

\* a training ends: handleWorkerTrainingComplete() or handleTrainingComplete()
\* when it succeeded, handleTrainingError() when it failed
TrainingEnds(i, succeeded) ==
  /\ i \in DOMAIN trainingRuns
  /\ trainingRuns[i].state = "running"
  /\ trainingRuns[i].simulated => succeeded
  /\ LET run == trainingRuns[i]
         status == IF succeeded THEN "completed" ELSE "failed"
     IN /\ dbModels' = [dbModels EXCEPT ![run.modelId] = status]
        /\ dbSessions' = UpdateSession(dbSessions, run.sessionId, status)
        /\ activeTrainingSessions' = activeTrainingSessions \ {run.modelId}
        /\ trainingRuns' = [trainingRuns EXCEPT ![i].state = status]
  /\ UNCHANGED <<poolState, threadVars, sinkVars, returned, monitorVars, demoMode, serviceResult>>

\* stopTraining(modelId)
StopTraining(modelId) ==
  /\ IF modelId \notin activeTrainingSessions
     THEN /\ serviceResult' = [call |-> "stopTraining", success |-> FALSE,
                               error |-> "No active training session found"]
          /\ UNCHANGED <<dbModels, activeTrainingSessions>>
     ELSE /\ dbModels' = [dbModels EXCEPT ![modelId] = "stopped"]
          /\ activeTrainingSessions' = activeTrainingSessions \ {modelId}
          /\ serviceResult' = [call |-> "stopTraining", success |-> TRUE]
  /\ UNCHANGED <<poolState, threadVars, sinkVars, returned, monitorVars, demoMode, dbSessions, trainingRuns>>

Next ==
  \/ \E type \in FallbackTypes, throws \in BOOLEAN : ExecuteFallback(type, throws)
  \/ ExecuteRejected
  \/ \E type \in QueuedTypes, priority \in DefaultPriority : ExecuteEnqueue(type, priority)
  \/ \E taskId \in 1..MaxTasks : TimerFire(taskId)
  \/ \E workerId \in DOMAIN thread :
       \E msg \in inbox[workerId], success \in BOOLEAN : WorkerResponse(workerId, msg, success)
  \/ \E workerId \in DOMAIN thread : WorkerError(workerId)
  \/ \E workerId \in DOMAIN thread : WorkerExit(workerId)
  \/ TerminateCall
  \/ TerminateWake

Spec == Init /\ [][Next]_vars

\* the same pool under callers that pass a priority, as WorkerManager does
PriorityNext ==
  \/ \E type \in FallbackTypes, throws \in BOOLEAN : ExecuteFallback(type, throws)
  \/ ExecuteRejected
  \/ \E type \in QueuedTypes, priority \in Priorities : ExecuteEnqueue(type, priority)
  \/ \E taskId \in 1..MaxTasks : TimerFire(taskId)
  \/ \E workerId \in DOMAIN thread :
       \E msg \in inbox[workerId], success \in BOOLEAN : WorkerResponse(workerId, msg, success)
  \/ \E workerId \in DOMAIN thread : WorkerError(workerId)
  \/ \E workerId \in DOMAIN thread : WorkerExit(workerId)
  \/ TerminateCall
  \/ TerminateWake

PrioritySpec == Init /\ [][PriorityNext]_vars

\* the same pool constructed with any of the configurations
ConfigSpec == ConfigInit /\ [][Next]_vars

\* the event loop delivers what is pending: a timer that is due, the wake-up
\* of terminate()'s sleep, the 'exit' of a stopped thread
Pending ==
  \/ \E taskId \in 1..MaxTasks : TimerFire(taskId)
  \/ TerminateWake
  \/ \E workerId \in DOMAIN thread : WorkerExit(workerId)

\* a pool constructed with USE_WORKERS = 'true' that stays so
EnabledInit == Init /\ envUseWorkers

EnabledNext ==
  \/ ExecuteRejected
  \/ \E type \in QueuedTypes, priority \in DefaultPriority : ExecuteEnqueue(type, priority)
  \/ \E taskId \in 1..MaxTasks : TimerFire(taskId)
  \/ \E workerId \in DOMAIN thread :
       \E msg \in inbox[workerId], success \in BOOLEAN : WorkerResponse(workerId, msg, success)
  \/ \E workerId \in DOMAIN thread : WorkerError(workerId)
  \/ \E workerId \in DOMAIN thread : WorkerExit(workerId)
  \/ TerminateCall
  \/ TerminateWake

FairSpec == EnabledInit /\ [][EnabledNext]_vars /\ WF_vars(Pending)

\* an enabled pool in service, under callers that pass a priority
DispatchNext ==
  \/ \E type \in QueuedTypes, priority \in Priorities : ExecuteEnqueue(type, priority)
  \/ \E taskId \in 1..MaxTasks : TimerFire(taskId)
  \/ \E workerId \in DOMAIN thread :
       \E msg \in inbox[workerId], success \in BOOLEAN : WorkerResponse(workerId, msg, success)
  \/ \E workerId \in DOMAIN thread : WorkerError(workerId)
  \/ \E workerId \in DOMAIN thread : WorkerExit(workerId)

DispatchSpec == EnabledInit /\ [][DispatchNext]_vars

\* the same, telling a repeated terminate() from the first
RepeatNext ==
  \/ ExecuteRejected
  \/ \E type \in QueuedTypes, priority \in DefaultPriority : ExecuteEnqueue(type, priority)
  \/ \E taskId \in 1..MaxTasks : TimerFire(taskId)
  \/ \E workerId \in DOMAIN thread :
       \E msg \in inbox[workerId], success \in BOOLEAN : WorkerResponse(workerId, msg, success)
  \/ \E workerId \in DOMAIN thread : WorkerError(workerId)
  \/ \E workerId \in DOMAIN thread : WorkerExit(workerId)
  \/ TerminateTracked
  \/ TerminateWake

RepeatSpec == EnabledInit /\ [][RepeatNext]_vars /\ WF_vars(Pending)

\* the pool with its workers' Progress and Metrics messages; the outcomes
\* the workers report are counted
UpdateNext ==
  \/ \E type \in QueuedTypes, priority \in DefaultPriority : ExecuteEnqueue(type, priority)
  \/ \E workerId \in DOMAIN thread :
       \E type \in UpdateTypes, memory \in MemoryReadings : WorkerSend(workerId, type, memory)
  \/ \E workerId \in DOMAIN thread : PoolReceive(workerId)
  \/ \E workerId \in DOMAIN thread :
       \E msg \in inbox[workerId], success \in BOOLEAN : WorkerReport(workerId, msg, success)

UpdateSpec == EnabledInit /\ [][UpdateNext]_vars

\* process.env.USE_WORKERS is assigned
SetEnv(useWorkers) ==
  /\ envUseWorkers' = useWorkers
  /\ UNCHANGED <<maxWorkers, maxMemoryPerWorker, workerTimeout, sideVars, clockVars, tally,
                 termAgain, poolVars, isShuttingDown, timer, promise, prio, responded,
                 crashes, termPc, termWaiting, lastExecute>>

\* the pool, enabled or disabled at construction, with USE_WORKERS assigned
\* between its execute() calls
EnvNext ==
  \/ \E useWorkers \in BOOLEAN : SetEnv(useWorkers)
  \/ \E type \in FallbackTypes, throws \in BOOLEAN : ExecuteFallback(type, throws)
  \/ \E type \in QueuedTypes, priority \in DefaultPriority : ExecuteEnqueue(type, priority)
  \/ \E taskId \in 1..MaxTasks : TimerFire(taskId)
  \/ \E workerId \in DOMAIN thread :
       \E msg \in inbox[workerId], success \in BOOLEAN : WorkerResponse(workerId, msg, success)

EnvSpec == Init /\ [][EnvNext]_vars

\* the pool with every kind of update its workers post: the ready signal,
\* the Progress messages of each phase and the Metrics messages, each
\* handled before the worker posts its next
PhaseNext ==
  \/ \E type \in QueuedTypes, priority \in DefaultPriority : ExecuteEnqueue(type, priority)
  \/ \E taskId \in 1..MaxTasks : TimerFire(taskId)
  \/ \E workerId \in DOMAIN thread : Outbox(workerId) = <<>> /\ WorkerReady(workerId)
  \/ \E workerId \in DOMAIN thread :
       \E type \in PostedTypes, memory \in MemoryReadings :
         Outbox(workerId) = <<>> /\ WorkerSend(workerId, type, memory)
  \/ \E workerId \in DOMAIN thread : PoolHandle(workerId)
  \/ \E workerId \in DOMAIN thread :
       \E msg \in inbox[workerId], success \in BOOLEAN : WorkerResponse(workerId, msg, success)

PhaseSpec == EnabledInit /\ [][PhaseNext]_vars

\* the same with a clock that advances between the events
MetricsNext ==
  \/ \E type \in QueuedTypes, priority \in DefaultPriority : ExecuteEnqueue(type, priority)
  \/ \E workerId \in DOMAIN thread :
       \E type \in UpdateTypes, memory \in MemoryReadings : WorkerSend(workerId, type, memory)
  \/ \E workerId \in DOMAIN thread : PoolReceive(workerId)
  \/ \E workerId \in DOMAIN thread :
       \E msg \in inbox[workerId], success \in BOOLEAN : WorkerReport(workerId, msg, success)
  \/ Tick

MetricsSpec == EnabledInit /\ [][MetricsNext]_vars

\* the pool, the outcomes its workers report and the periodic recomputation
MonitorNext ==
  \/ \E type \in QueuedTypes, priority \in DefaultPriority : ExecuteEnqueue(type, priority)
  \/ \E workerId \in DOMAIN thread :
       \E msg \in inbox[workerId], success \in BOOLEAN : WorkerReport(workerId, msg, success)
  \/ \E workerId \in DOMAIN thread : WorkerError(workerId)
  \/ \E workerId \in DOMAIN thread : WorkerExit(workerId)
  \/ UpdatePerformanceMetrics

MonitorSpec == EnabledInit /\ [][MonitorNext]_vars

\* the pool watched from outside: its events, the time that passes between
\* them, and the callers of getStatus() and healthCheck()
HealthNext ==
  \/ \E type \in QueuedTypes, priority \in DefaultPriority : ExecuteEnqueue(type, priority)
  \/ \E workerId \in DOMAIN thread : WorkerError(workerId)
  \/ \E workerId \in DOMAIN thread : WorkerExit(workerId)
  \/ \E ms \in StaleWaits : Elapse(ms)
  \/ HealthCheck

\* the pool in service, its timers and Responses, and the callers of
\* getStatus() and healthCheck()
StatusNext ==
  \/ \E type \in QueuedTypes, priority \in DefaultPriority : ExecuteEnqueue(type, priority)
  \/ \E taskId \in 1..MaxTasks : TimerFire(taskId)
  \/ \E workerId \in DOMAIN thread :
       \E msg \in inbox[workerId], success \in BOOLEAN : WorkerResponse(workerId, msg, success)
  \/ \E workerId \in DOMAIN thread : WorkerExit(workerId)
  \/ TerminateCall
  \/ TerminateWake
  \/ \E ms \in StaleWaits : Elapse(ms)
  \/ GetStatus
  \/ HealthCheck

HealthSpec == Init /\ [][HealthNext]_vars

\* healthCheck() applied to the metrics given, at the times given
CheckNext ==
  \/ \E ms \in Waits : Elapse(ms)
  \/ HealthCheck

CheckSpec == CheckInit /\ [][CheckNext]_vars

StatusSpec == Init /\ [][StatusNext]_vars

\* the monitor by itself, on any alert log, with its callers of
\* getPerformanceSummary()
SummaryNext ==
  \/ StartMonitoring
  \/ MonitorTick(MaxTicks)
  \/ \E responseTime \in ResponseTimes : MonitorResume(responseTime)
  \/ GetPerformanceSummary

SummarySpec == SummaryInit /\ [][SummaryNext]_vars

\* the monitor left to run while the main thread answers slowly
AlertNext ==
  \/ StartMonitoring
  \/ MonitorTick(MaxChecks)
  \/ \E responseTime \in SlowResponseTimes : MonitorResume(responseTime)

AlertSpec == Init /\ [][AlertNext]_vars

\* the pool with its periodic recomputation, beside the monitor with its
\* ticks and the callers that report worker metrics to it
UtilizationNext ==
  \/ \E type \in QueuedTypes, priority \in DefaultPriority : ExecuteEnqueue(type, priority)
  \/ \E workerId \in DOMAIN thread :
       \E msg \in inbox[workerId], success \in BOOLEAN : WorkerResponse(workerId, msg, success)
  \/ \E workerId \in DOMAIN thread : WorkerError(workerId)
  \/ \E workerId \in DOMAIN thread : WorkerExit(workerId)
  \/ UpdatePerformanceMetrics
  \/ \E workerId \in MonitorIds, m \in MonitorInputs : UpdateWorkerMetrics(workerId, m)
  \/ StartMonitoring
  \/ MonitorTick(MaxTicks)
  \/ \E responseTime \in ResponseTimes : MonitorResume(responseTime)

UtilizationSpec == EnabledInit /\ [][UtilizationNext]_vars

\* the training service and the trainings it sets off
ServiceNext ==
  \/ \E modelId \in ModelIds : StartTraining(modelId)
  \/ \E i \in 1..MaxSessions, succeeded \in BOOLEAN : TrainingEnds(i, succeeded)
  \/ \E modelId \in ModelIds : StopTraining(modelId)

ServiceSpec == ServiceInit /\ [][ServiceNext]_vars

\* ------------------------------------------------------------ the worker thread
\* a call of the message handler that awaits its task; of a training,
\* config.epochs, the epochs model.fit() has run, config.checkpointInterval
\* (0 without config.saveCheckpoints) and whether onEpochEnd awaits a
\* checkpoint
Handler(id, type, interval, epochs) ==
  [id |-> id, type |-> type, epoch |-> 0, saving |-> FALSE,
   interval |-> IF type = "train" THEN interval ELSE 0,
   epochs |-> IF type = "train" THEN epochs ELSE 0]

\* the catch block of the message handler, announcing the failure before
\* answering it
CatchProgressFirst(task, error) ==
  <<SendProgressUpdate(task, "error", error)>> \o SendResponse(task, FALSE, error)

\* the catch block of the message handler: sendResponse(false, undefined,
\* workerError.message), then sendProgressUpdate('error', workerError)
Catch(task, error) ==
  SendResponse(task, FALSE, error) \o <<SendProgressUpdate(task, "error", error)>>

\* parentPort.on('message', ...) up to the handler's first await, or to its
\* end for the types it answers without awaiting
OnMessage(type, interval, epochs) ==
  LET id == received + 1
  IN /\ received < MaxMessages
     /\ received' = id
     /\ currentTask' = id
     /\ IF type \in AwaitedTypes
        THEN /\ running' = running \cup {Handler(id, type, interval, epochs)}
             /\ isTraining' = (type = "train" \/ isTraining)
             /\ intervals' = IF type = "train" THEN intervals \cup {id} ELSE intervals
             /\ UNCHANGED <<thrown, sent>>
        ELSE IF type \in AnsweredTypes
        THEN /\ isTraining' = (type # "stop" /\ isTraining)
             /\ sent' = sent \o SendResponse(id, TRUE, "")
             /\ UNCHANGED <<running, intervals, thrown>>
        ELSE /\ thrown' = Append(thrown, UnknownTaskType)
             /\ sent' = sent \o Catch(id, UnknownTaskType)
             /\ UNCHANGED <<running, intervals, isTraining>>
     /\ UNCHANGED <<poolState, returned, monitorVars, serviceVars, sinkVars>>

\* model.fit() of a training runs its next epoch: onEpochBegin and
\* onEpochEnd up to its await of saveModelCheckpoint(), if it has one
TrainEpoch(h) ==
  /\ h \in running
  /\ h.type = "train" /\ ~h.saving /\ h.epoch < h.epochs
  /\ running' = (running \ {h}) \cup
                  {[h EXCEPT !.epoch = @ + 1,
                             !.saving = h.interval > 0 /\ (h.epoch + 1) % h.interval = 0]}
  /\ sent' = sent \o <<SendProgressUpdate(currentTask, "progress", ""),
                        SendProgressUpdate(currentTask, "progress", "")>>
  /\ UNCHANGED <<currentTask, isTraining, intervals, received, thrown>>
  /\ UNCHANGED <<poolState, returned, monitorVars, serviceVars, sinkVars>>

\* saveModelCheckpoint() of onEpochEnd resolves: the rest of onEpochEnd
SaveCheckpoint(h) ==
  /\ h \in running
  /\ h.saving
  /\ running' = (running \ {h}) \cup {[h EXCEPT !.saving = FALSE]}
  /\ sent' = Append(sent, SendProgressUpdate(currentTask, "checkpoint", ""))
  /\ UNCHANGED <<currentTask, isTraining, intervals, received, thrown>>
  /\ UNCHANGED <<poolState, returned, monitorVars, serviceVars, sinkVars>>

\* the awaited task of a handler resolves: the end of performRealTraining()
\* for a training that has run its epochs, then the rest of the try block
TaskResolves(h) ==
  /\ h \in running
  /\ h.type = "train" => (h.epoch = h.epochs /\ ~h.saving)
  /\ running' = running \ {h}
  /\ intervals' = intervals \ {h.id}
  /\ isTraining' = (h.type # "train" /\ isTraining)
  /\ sent' = sent \o (IF h.type = "train"
                       THEN <<SendProgressUpdate(currentTask, "complete", "")>>
                       ELSE <<>>)
                  \o SendResponse(currentTask, TRUE, "")
  /\ UNCHANGED <<currentTask, received, thrown>>
  /\ UNCHANGED <<poolState, returned, monitorVars, serviceVars, sinkVars>>

\* the awaited task of a handler throws: the finally of a train, then the
\* catch block
TaskThrows(h, error) ==
  /\ h \in running
  /\ running' = running \ {h}
  /\ isTraining' = (h.type # "train" /\ isTraining)
  /\ thrown' = Append(thrown, error)
  /\ sent' = sent \o Catch(currentTask, error)
  /\ UNCHANGED <<currentTask, received, intervals>>
  /\ UNCHANGED <<poolState, returned, monitorVars, serviceVars, sinkVars>>

\* a callback of a metrics interval of startMonitoring()
SendMetrics ==
  /\ intervals # {}
  /\ isTraining /\ currentTask # 0
  /\ Len(sent) < MaxSent
  /\ sent' = Append(sent, SendProgressUpdate(currentTask, "metrics", ""))
  /\ UNCHANGED <<currentTask, isTraining, running, intervals, received, thrown>>
  /\ UNCHANGED <<poolState, returned, monitorVars, serviceVars, sinkVars>>

\* the worker and the messages its handler is called with, its trainings
\* of one epoch and without checkpoints
WorkerNext ==
  \/ \E type \in WorkerMessageTypes : OnMessage(type, 0, 1)
  \/ \E h \in running : TrainEpoch(h)
  \/ \E h \in running : TaskResolves(h)
  \/ \E h \in running, error \in ErrorMessages : TaskThrows(h, error)
  \/ SendMetrics

WorkerSpec == WorkerInit /\ [][WorkerNext]_vars

\* a worker that is sent trainings of several epochs, with and without
\* checkpoints, and Stop messages
TrainNext ==
  \/ \E type \in TrainMessageTypes, interval \in CheckpointIntervals :
       OnMessage(type, interval, MaxEpochs)
  \/ \E h \in running : TrainEpoch(h)
  \/ \E h \in running : SaveCheckpoint(h)
  \/ \E h \in running : TaskResolves(h)
  \/ \E h \in running, error \in ErrorMessages : TaskThrows(h, error)

TrainSpec == WorkerInit /\ [][TrainNext]_vars

\* the monitor by itself: started and stopped, its ticks, its callers
TickNext ==
  \/ StartMonitoring
  \/ StopMonitoring
  \/ MonitorTick(MaxTicks)
  \/ \E responseTime \in ResponseTimes : MonitorResume(responseTime)
  \/ \E workerId \in MonitorIds, m \in MonitorInputs : UpdateWorkerMetrics(workerId, m)
  \/ GetPerformanceSummary

TickSpec == Init /\ [][TickNext]_vars

\* ------------------------------------------------------------ claims
Dispatched == Range(dispatchLog)

\* C1: every submitted task is settled exactly once, by the Response, by its
\* timeout or by shutdown: never twice, and settled once its timer is no
\* longer pending, also when it had already been dispatched.
C1_SettledExactlyOnce ==
  \A t \in DOMAIN promise :
    /\ Len(promise[t]) <= 1
    /\ timer[t] # "armed" => Len(promise[t]) = 1

\* C2: when a Busy worker sends the Response for the task dispatched to it,
\* the pool settles the task's caller, frees the worker, and dispatches the
\* head of the queue when a task is waiting.
C2_ResponseFreesWorker ==
  [][\A e \in Dispatched :
       (e.posted /\ e.id \in responded' \ responded /\ timer[e.id] = "armed" /\ e.worker \in busy)
       => /\ promise'[e.id] \in {<<"resolved">>, <<"rejected_error">>}
          /\ IF taskQueue = <<>>
             THEN e.worker \in Range(available') /\ e.worker \notin busy'
             ELSE /\ Len(dispatchLog') = Len(dispatchLog) + 1
                  /\ dispatchLog'[Len(dispatchLog')].id = Head(taskQueue).id]_vars

\* C3: a dispatched task whose worker never sends a Response is rejected with
\* a Timeout error when its timer fires.
C3_DispatchedTimesOut ==
  \A e \in Dispatched :
    (timer[e.id] = "fired" /\ e.id \notin responded) => promise[e.id] = <<"rejected_timeout">>

\* C4: of two tasks queued at the same time the one submitted with the higher
\* priority is dispatched first: no task left in the queue at a dispatch has a
\* higher priority than the task dispatched.
C4_HigherPriorityFirst ==
  \A e \in Dispatched : \A q \in e.left : prio[q] <= prio[e.id]

\* C5: among queued tasks of equal priority dispatch is FIFO: a task of the
\* same priority left in the queue at a dispatch was submitted later than the
\* task dispatched.
C5_FifoWithinPriority ==
  \A e \in Dispatched : \A q \in e.left : prio[q] = prio[e.id] => e.id < q

\* a task was dispatched while a later task of its priority stayed queued
C5_Witness ==
  \E e \in Dispatched : \E q \in e.left : prio[q] = prio[e.id] /\ e.id < q

\* C6: totalWorkers is maxWorkers on an enabled pool until a worker fails or
\* the pool is shut down, and never exceeds maxWorkers, whatever 'error' and
\* 'exit' events the workers raise.
C6_TotalWorkersAtMostMax ==
  /\ (envUseWorkers /\ crashes = 0 /\ termPc = "idle") => Cardinality(workers) = maxWorkers
  /\ Cardinality(workers) <= maxWorkers

Failed == {w \in DOMAIN thread : thread[w] \in {"crashed", "exited"}}

\* C7: once the pool has handled the 'error' or the 'exit' event of a worker,
\* its id is in none of Available, Busy, the worker map and the metrics map,
\* and one replacement per failed worker has been created.
C7_FailedWorkerRemoved ==
  /\ \A w \in Failed :
       /\ w \notin Range(available)
       /\ w \notin busy
       /\ w \notin workers
       /\ w \notin DOMAIN metrics
  /\ Len(thread) > 0 => Len(thread) = maxWorkers + Cardinality(Failed)

\* C8: once terminate() has been called no worker is created.
C8_NoWorkerCreatedInShutdown ==
  [][isShuttingDown => Len(thread') = Len(thread)]_vars

ExecuteCalled ==
  \/ \E type \in FallbackTypes, throws \in BOOLEAN : ExecuteFallback(type, throws)
  \/ ExecuteRejected
  \/ \E type \in QueuedTypes, priority \in DefaultPriority : ExecuteEnqueue(type, priority)

\* C9: after terminate() has resolved totalWorkers is 0, and every later
\* execute() on the pool is rejected with the shutting-down error without
\* enqueuing a task or contacting a worker.
C9_TerminatedPoolIsEmpty ==
  /\ [](termPc = "done" => Cardinality(workers) = 0)
  /\ [][(termPc = "done" /\ envUseWorkers /\ ExecuteCalled)
        => (lastExecute' = "shutting_down" /\ UNCHANGED <<taskQueue, inbox>>)]_vars

\* C10: terminate() eventually resolves when the timers of the queued tasks
\* fire; no task enters the queue after it began; when it resolves the queue,
\* Available, Busy, the worker map and the metrics map are empty.
C10_TerminateDrainsAndClears ==
  /\ (termPc \in {"draining", "stopping"}) ~> (termPc = "done")
  /\ [][isShuttingDown => QueueIds(taskQueue') \subseteq QueueIds(taskQueue)]_vars
  /\ [][(termPc # "done" /\ termPc' = "done")
        => /\ taskQueue' = <<>>
           /\ available' = <<>>
           /\ busy' = {}
           /\ workers' = {}
           /\ metrics' = <<>>]_vars

\* terminate() of an enabled pool has resolved: its workers were stopped and
\* a task that waited in the queue was timed out
C10_Witness ==
  /\ termPc = "done"
  /\ \E w \in DOMAIN thread : thread[w] = "exited"
  /\ \E t \in DOMAIN promise : promise[t] = <<"rejected_timeout">>

\* C11: terminate() called again after it has resolved resolves, and at its
\* resolution the pool is in the terminated state again: no worker, an empty
\* queue, no metrics, and execute() still refused.
C11_TerminateIdempotent ==
  /\ (termAgain /\ termPc = "stopping") ~> (termPc = "done")
  /\ [][(termAgain' /\ termPc' = "done" /\ (termPc # "done" \/ TerminateTracked))
        => /\ workers' = {}
           /\ taskQueue' = <<>>
           /\ metrics' = <<>>
           /\ isShuttingDown']_vars

\* a repeated terminate() has resolved on a pool whose workers had been stopped
C11_Witness ==
  /\ termAgain
  /\ termPc = "done"
  /\ \E w \in DOMAIN thread : thread[w] = "exited"

\* C12: k + 1 tasks submitted in a row to a fresh pool of k workers, with no
\* worker message, timer or shutdown in between, leave k workers Busy, none
\* Available and one task queued.
C12_OneTaskStaysQueued ==
  (/\ envUseWorkers
   /\ termPc = "idle" /\ crashes = 0 /\ responded = {}
   /\ Len(promise) = maxWorkers + 1
   /\ \A t \in DOMAIN timer : timer[t] = "armed")
  => /\ Cardinality(busy) = maxWorkers
     /\ Len(available) = 0
     /\ Len(taskQueue) = 1

\* the largest pool has just been given one task more than it has workers
C12_Witness ==
  /\ envUseWorkers
  /\ termPc = "idle" /\ crashes = 0 /\ responded = {}
  /\ maxWorkers = DefaultMaxWorkers
  /\ Len(promise) = maxWorkers + 1
  /\ \A t \in DOMAIN timer : timer[t] = "armed"

\* C13: a task still queued when its timer fires is removed from the queue
\* and its caller rejected with Timeout; a task whose timer has fired is not
\* in the queue and is never dispatched afterwards.
C13_QueuedTimesOut ==
  /\ [][\A t \in DOMAIN timer :
          (t \in QueueIds(taskQueue) /\ timer[t] = "armed" /\ timer'[t] = "fired")
          => (t \notin QueueIds(taskQueue') /\ promise'[t] = <<"rejected_timeout">>)]_vars
  /\ [](\A t \in DOMAIN timer : timer[t] = "fired" => t \notin QueueIds(taskQueue))
  /\ [][\A i \in DOMAIN dispatchLog' \ DOMAIN dispatchLog :
          dispatchLog'[i].id \in DOMAIN timer => timer[dispatchLog'[i].id] = "armed"]_vars

\* a queued task was timed out and a later task was dispatched after it
C13_Witness ==
  \E t \in DOMAIN timer :
    /\ timer[t] = "fired"
    /\ promise[t] = <<"rejected_timeout">>
    /\ \A e \in Dispatched : e.id # t
    /\ \E e \in Dispatched : e.id > t

\* C14: when the timer of a task fires that a worker is executing, the pool
\* posts a Stop message to that worker.
C14_StopSentOnTimeout ==
  [][\A e \in Dispatched :
       (/\ e.posted /\ thread[e.worker] = "running" /\ e.id \notin responded
        /\ timer[e.id] = "armed" /\ timer'[e.id] = "fired")
       => \E m \in inbox'[e.worker] : m.type = "stop"]_vars

\* C15: a pool constructed with USE_WORKERS not 'true' has no worker, and
\* whatever execute() calls it serves its queue stays empty, no worker thread
\* is created and no message is posted.
C15_DisabledPoolBypassesQueue ==
  ~envUseWorkers =>
    /\ workers = {}
    /\ taskQueue = <<>>
    /\ thread = <<>>
    /\ inbox = <<>>
    /\ dispatchLog = <<>>

\* a disabled pool has run a task in the main thread
C15_Witness == ~envUseWorkers /\ lastExecute = "fallback_resolved"

\* C16: for every kind of task execute() on a disabled pool ends as the
\* worker's handling of that kind ends: resolved where the worker answers
\* with success, rejected where it answers with an error.
C16_FallbackSameOutcome ==
  [][\A type \in FallbackTypes, throws \in BOOLEAN :
       ExecuteFallback(type, throws)
       => ((lastExecute' = "fallback_resolved") <=> WorkerSucceeds(type, throws))]_vars

\* C17: a pool whose configuration validateWorkerConfig rejects is not
\* started: it has created no worker and serves no call.
C17_InvalidConfigurationRejected ==
  ~ValidateWorkerConfig([maxWorkers |-> maxWorkers,
                         maxMemoryPerWorker |-> maxMemoryPerWorker,
                         workerTimeout |-> workerTimeout])
  => (thread = <<>> /\ lastExecute = "none" /\ termPc = "idle")

Live == {w \in workers : w \in DOMAIN metrics /\ thread[w] = "running"}

\* C18: for every live worker tasksCompleted + tasksFailed of its metrics
\* never decreases, whatever Response, Progress and Metrics messages the
\* pool handles.
C18_CountersNeverDecrease ==
  [][\A w \in Live :
       w \in DOMAIN metrics'
       => metrics'[w].tasksCompleted + metrics'[w].tasksFailed
            >= metrics[w].tasksCompleted + metrics[w].tasksFailed]_vars

\* the pool has merged a Metrics message of a live worker and has handled
\* the Response of the task dispatched to it
C18_Witness ==
  \E w \in Live :
    /\ metrics[w].memoryUsage > 0
    /\ \E e \in Dispatched : e.worker = w /\ e.id \in responded

\* C19: for every live worker lastActivity of its metrics never decreases,
\* also when a Metrics message carrying the worker's send time is handled
\* after a later receipt time was recorded.
C19_LastActivityMonotonic ==
  [][\A w \in Live :
       w \in DOMAIN metrics' => metrics'[w].lastActivity >= metrics[w].lastActivity]_vars

\* 100 * F / (F + C) in whole percent, 0 when nothing was reported
ExpectedErrorRate ==
  IF tally.failed + tally.completed = 0 THEN 0
  ELSE (100 * tally.failed) \div (tally.failed + tally.completed)

\* C20: whatever completions and failures the workers have reported, a
\* recomputation of errorRate yields 100 * F / (F + C), and 0 when F + C = 0.
C20_ErrorRateIsFailedShare ==
  [][UpdatePerformanceMetrics => performanceMetrics'.errorRate = ExpectedErrorRate]_vars

Healthy == [isHealthy |-> TRUE, issues |-> <<>>]

\* C21: in the state a replacement leaves, the entry of healthCheck() for the
\* worker just created is healthy with no issue, whatever the metrics of the
\* worker it replaces were, and a healthCheck() called on a replacement in
\* the instant of its creation returns that entry.
C21_ReplacementIsHealthy ==
  /\ [][\A w \in DOMAIN metrics' \ DOMAIN metrics :
          w > maxWorkers => HealthChecks'[w] = Healthy]_vars
  /\ [][HealthCheck =>
          \A w \in DOMAIN metrics :
            (w > maxWorkers /\ metrics[w] = FreshMetrics) => returned'.value[w] = Healthy]_vars

\* healthCheck() has returned the entry of a worker created in this instant
\* in place of one that had been idle beyond the limit when it crashed
C21_Witness ==
  /\ crashes > 0
  /\ now > IdleLimit
  /\ returned.call = "healthCheck"
  /\ \E w \in DOMAIN metrics :
       /\ w > maxWorkers
       /\ metrics[w].lastActivity = now
       /\ w \in DOMAIN returned.value
       /\ returned.value[w] = Healthy

\* C22: healthCheck() returns one entry for each worker, and the entry says
\* healthy exactly when the worker's memoryUsage is not over
\* maxMemoryPerWorker, it has not been idle for more than 60000 ms, and not
\* more than 10% of the tasks it has finished have failed.
C22_HealthyIffNoIssue ==
  [][HealthCheck =>
       /\ DOMAIN returned'.value = workers
       /\ \A w \in workers :
            LET m == metrics[w]
                total == m.tasksCompleted + m.tasksFailed
            IN returned'.value[w].isHealthy
               <=> ~(\/ m.memoryUsage > maxMemoryPerWorker
                     \/ now - m.lastActivity > 60000
                     \/ (total > 0 /\ 100 * m.tasksFailed > 10 * total))]_vars

\* healthCheck() has returned, for workers idle for exactly 60000 ms, a
\* healthy entry for one at the memory limit with one task failed in ten and
\* an entry with the error rate as its only issue for another
C22_Witness ==
  /\ returned.call = "healthCheck"
  /\ now = IdleLimit
  /\ \E w, v \in workers :
       /\ metrics[w].memoryUsage = maxMemoryPerWorker
       /\ metrics[w].tasksFailed = 1
       /\ returned.value[w] = Healthy
       /\ returned.value[v] = [isHealthy |-> FALSE, issues |-> <<"errors">>]

\* C23: a call of getStatus() or healthCheck(), in any state of the pool and
\* however often repeated, leaves the task queue, Available, Busy, the worker
\* map, the metrics, the worker threads and every pending result as they
\* were: an unhealthy report replaces no worker.
C23_StatusAndHealthReadOnly ==
  [][(GetStatus \/ HealthCheck \/ returned' # returned)
     => UNCHANGED <<taskQueue, available, busy, workers, metrics, thread, inbox,
                    timer, promise, performanceMetrics, isShuttingDown>>]_vars

\* healthCheck() has reported a worker as unhealthy while a task waited in
\* the queue: the worker is still running in the pool and none was created
C23_Witness ==
  /\ returned.call = "healthCheck"
  /\ Len(taskQueue) > 0
  /\ \E t \in DOMAIN promise : promise[t] = <<>>
  /\ Len(thread) = maxWorkers
  /\ \E w \in workers :
       /\ ~returned.value[w].isHealthy
       /\ thread[w] = "running"
       /\ w \in DOMAIN metrics

\* critical with a critical alert, else warning with a warning or an error
\* alert, else healthy
ExpectedStatus(log) ==
  IF \E i \in DOMAIN log : log[i].type = "critical" THEN "critical"
  ELSE IF \E i \in DOMAIN log : log[i].type \in {"warning", "error"} THEN "warning"
  ELSE "healthy"

C25_AlertLogBounded ==
  /\ Len(alerts) <= 100
  /\ Len(alerts) = IF alertsRaised < 100 THEN alertsRaised ELSE 100
  /\ \A i \in DOMAIN alerts : alerts[i].id = alertsRaised - Len(alerts) + i

\* more than 100 alerts have been added: the log holds 100, the first added
\* is gone
C25_Witness ==
  /\ alertsRaised > AlertCap
  /\ Len(alerts) = AlertCap
  /\ alerts[1].id = alertsRaised - AlertCap + 1
  /\ alerts[1].id > 1

\* 100 * Busy / total in whole percent
BusyShare == (100 * Cardinality(busy)) \div Cardinality(workers)

\* C26: on a pool with at least one worker every periodic recomputation
\* leaves workerUtilization at 100 * (workers Busy) / (workers in all), in
\* the pool's own performance snapshot and in the monitor's metrics.
C26_UtilizationIsBusyShare ==
  /\ [][(UpdatePerformanceMetrics /\ workers # {})
        => performanceMetrics'.workerUtilization = BusyShare]_vars
  /\ [][(monitorPc = "measuring" /\ monitorPc' = "idle" /\ workers # {})
        => monitorMetrics'.workerUtilization = BusyShare]_vars

\* C27: startTraining(modelId) on a model that has an active training
\* session returns {success: false, error: 'Model is already training'},
\* creates no session row, leaves the status of the model as it is and sets
\* off no training.
C27_AlreadyTrainingRejected ==
  [][\A modelId \in ModelIds :
       (StartTraining(modelId) /\ modelId \in activeTrainingSessions)
       => /\ serviceResult' = AlreadyTraining
          /\ UNCHANGED <<dbSessions, dbModels, trainingRuns, activeTrainingSessions>>]_vars

\* a second startTraining() of a model in training was refused: its one
\* session is still running
C27_Witness ==
  /\ serviceResult = AlreadyTraining
  /\ \E modelId \in activeTrainingSessions :
       /\ dbModels[modelId] = "training"
       /\ Cardinality({i \in DOMAIN trainingRuns : trainingRuns[i].modelId = modelId}) = 1
       /\ Cardinality({id \in DOMAIN dbSessions : dbSessions[id].model_id = modelId}) = 1

\* C28: once the pool has handled an event (a task enqueued, a Response, a
\* worker replaced) no task waits in the queue while a worker is Available.
C28_QueueDrained ==
  Len(taskQueue) > 0 => Len(available) = 0

\* C29: in every monitoring tick the threshold check runs when that tick's
\* recomputation has finished: a step that raises alerts leaves no
\* updateMetrics() of the tick unfinished, so that the alerts of a tick rest
\* on the metrics recomputed in it.
C29_CheckAfterRecomputation ==
  [][alertsRaised' # alertsRaised => monitorPc' = "idle"]_vars

\* the WorkerResponses among the messages a worker has posted
Responses(log) == {i \in 1..Len(log) : log[i].kind = "response"}

\* C30: when the task of a message throws, the worker posts a Response with
\* success = false that carries the error's message and right after it a
\* Progress message of type 'error', both in the step that catches the error;
\* and the worker goes on handling messages: every message it has received
\* is awaiting its task or has been answered with a Response.
C30_ErrorAnsweredWorkerAlive ==
  /\ [][thrown' # thrown =>
          LET error == thrown'[Len(thrown')]
          IN sent' = sent \o <<Posted("response", currentTask', "", FALSE, error),
                               Posted("progress", currentTask', "error", TRUE, error)>>]_vars
  /\ [](Cardinality(Responses(sent)) = received - Cardinality(running))

\* the task of the first message has thrown, the worker has answered it with
\* the Response and the 'error' Progress, and after them it has answered the
\* second message with success
C30_Witness ==
  /\ Len(thrown) = 1
  /\ \E i \in 1..(Len(sent) - 2) :
       /\ sent[i].kind = "response" /\ ~sent[i].success /\ sent[i].error = thrown[1]
       /\ sent[i + 1].kind = "progress" /\ sent[i + 1].type = "error"
       /\ sent[i + 2].kind = "response" /\ sent[i + 2].success /\ sent[i + 2].id = 2

\* C31: for every Task message delivered to a worker the worker posts exactly
\* one Response, and that Response carries the id of the message it answers:
\* a message whose handler still awaits its task has no Response with its
\* id, every other received message has exactly one.
C31_OneResponsePerTask ==
  \A id \in 1..received :
    Cardinality({i \in Responses(sent) : sent[i].id = id})
      = IF id \in {h.id : h \in running} THEN 0 ELSE 1

\* C32: a Stop message cancels the training that is executing: Stop clears
\* the flag isTraining, and a training runs a further epoch only while the
\* flag is set, so after a Stop it ends before its remaining epochs.
C32_StopCancelsTraining ==
  [][\A h \in running, g \in running' :
       (g.id = h.id /\ g.epoch > h.epoch) => isTraining]_vars

\* C33: every Progress message of the phases progress, checkpoint, error
\* and complete that the pool handles is passed on, unchanged, to
\* emitProgressUpdate().
C33_ProgressForwarded ==
  \A i \in DOMAIN handled :
    handled[i].type \in ProgressPhases => emitted = <<handled[i]>>

\* the step is a call of handleWorkerMessage() with a worker's update
UpdateHandled ==
  \E workerId \in DOMAIN outbox :
    outbox[workerId] # <<>> /\ outbox'[workerId] = Tail(outbox[workerId])

\* C34: handling a Progress message of any phase ('ready', 'checkpoint',
\* 'error' and 'complete' too) or a Metrics message settles no pending task
\* and changes neither the task queue nor the Available and Busy sets.
C34_UpdatesLeaveTasksAlone ==
  [][UpdateHandled => UNCHANGED <<promise, timer, taskQueue, available, busy>>]_vars

\* the pool has handled the 'complete' message of a task whose promise is
\* still pending, with another task waiting in the queue
C34_Witness ==
  /\ Len(taskQueue) > 0
  /\ \E i \in DOMAIN handled :
       /\ handled[i].type = "complete"
       /\ handled[i].id \in DOMAIN promise
       /\ promise[handled[i].id] = <<>>

\* C35: the toggle of a pool is fixed at construction: a pool constructed
\* with USE_WORKERS not 'true', which has created no worker, never has a
\* task enqueued, whatever USE_WORKERS is set to afterwards.
C35_DisabledPoolNeverEnqueues ==
  DOMAIN thread = {} => (taskQueue = <<>> /\ DOMAIN promise = {})

\* C36: no caller's promise is settled more than once: once a settlement
\* (resolved, rejected for an error, rejected for the timeout) is recorded
\* for a task, no Response, timer, crash or terminate() adds another.
C36_SettledAtMostOnce ==
  [][\A t \in DOMAIN promise : promise[t] # <<>> => promise'[t] = promise[t]]_vars

\* one task was rejected by its timer while it waited in the queue, and for
\* another both the worker's Response has been handled and the timer has
\* fired
C36_Witness ==
  /\ \E t \in DOMAIN promise : promise[t] = <<"rejected_timeout">>
  /\ \E t \in DOMAIN promise : t \in responded /\ timer[t] = "fired"

\* C37: dispatch loses no task: every task that processQueue() has taken
\* off the queue was posted to a worker, the id picked from Available being
\* that of a worker in the worker map, also after exits and replacements.
C37_DispatchedIsPosted ==
  \A i \in DOMAIN dispatchLog : dispatchLog[i].posted

\* a worker has crashed and exited, and a task was dispatched to one of the
\* workers created in its place
C37_Witness ==
  /\ \E w \in DOMAIN thread : thread[w] = "exited"
  /\ \E i \in DOMAIN dispatchLog :
       dispatchLog[i].worker > maxWorkers /\ dispatchLog[i].posted

\* C38: the Available and Busy sets are disjoint in every state, and
\* processQueue() dispatches a task only to a worker that is not Busy and has
\* no task that was posted to it and is not answered yet: a worker executes
\* at most one task at a time.
C38_OneTaskPerWorker ==
  /\ [](Range(available) \cap busy = {})
  /\ [][\A i \in DOMAIN dispatchLog' \ DOMAIN dispatchLog :
          LET w == dispatchLog'[i].worker
          IN w \notin busy /\ (w \in DOMAIN inbox => inbox[w] = {})]_vars

\* one worker is Busy with a task it has not answered while a second task
\* has been dispatched to another worker
C38_Witness ==
  \E i, j \in DOMAIN dispatchLog :
    /\ i < j
    /\ dispatchLog[i].worker # dispatchLog[j].worker
    /\ dispatchLog[i].worker \in busy
    /\ inbox[dispatchLog[i].worker] # {}
    /\ dispatchLog[j].worker \in busy

\* C39: TrainingService runs at most one training per model at a time:
\* whatever the order of startTraining, stopTraining and the ends of earlier
\* runs, no two runs of one model that were set off in production mode are
\* executing at once.
C39_OneRunPerModel ==
  \A i, j \in DOMAIN trainingRuns :
    (/\ i # j
     /\ trainingRuns[i].state = "running" /\ trainingRuns[j].state = "running"
     /\ ~trainingRuns[i].simulated /\ ~trainingRuns[j].simulated)
    => trainingRuns[i].modelId # trainingRuns[j].modelId

====
